---------------------------- MODULE Spec2Model ----------------------------
(***************************************************************************)
(* The WebSocket chat core of server/routes.ts: the connectedUsers and     *)
(* roomSockets maps, the 'message' and 'close' handlers of a connection,   *)
(* and the storage calls they await.  Every await of a handler is a point  *)
(* where the handlers of other frames and connections run, so a handler is *)
(* a task that is resumed, one step per await, when its storage call       *)
(* settles (resolves or rejects).                                          *)
(***************************************************************************)
EXTENDS Integers, Sequences, FiniteSets, TLC

VARIABLES
    readyState,      \* socket -> "OPEN" | "FAILED" | "CLOSED" (ws.readyState;
                     \* FAILED: still OPEN to the code, the transport is dead)
    objs,            \* socket -> the SocketUser objects created for it, oldest first
    connectedUsers,  \* socket -> index into objs[socket] of its map entry, 0: no entry
    roomSockets,     \* room key -> set of sockets
    tasks,           \* handlers suspended at an await
    outbox,          \* socket -> the events sent to it, in order
    dbStatus,        \* users.status as written by updateUserStatus
    dbTyping,        \* the <<room, user>> pairs whose isTyping is true
    dbLastRead,      \* the <<room, user>> pairs updateLastRead has written
    dbMessages,      \* the rows createMessage has inserted, in insertion order
    dbMembers,       \* the <<room, user>> pairs that have a room_members row
    closeState,      \* socket -> progress of its 'close' handler
    nframes,         \* inbound frames received so far
    left,            \* what the clients may still do: frames per socket, storage failures
    client           \* the MessageInput component of one browser and its socket

vars == <<readyState, objs, connectedUsers, roomSockets, tasks, outbox,
          dbStatus, dbTyping, dbLastRead, dbMessages, dbMembers, closeState,
          nframes, left, client>>

-----------------------------------------------------------------------------
(* Bounds of the model *)

\* handlers suspended at an await at one time
MaxPending == 2

Sockets == {"s1", "s2"}
UserIds == {"u1", "u2"}
\* The rows of the users table: storage.getUser resolves to undefined for others.
DbUsers == {"u1", "u2"}
Rooms == {"rA", "rB"}

\* payload.userId / payload.roomId missing from the frame (undefined: falsy)
NoUser == "undefined_user"
NoRoom == "undefined_room"
\* roomSockets is a Map: undefined is a key like any other.
RoomKeys == Rooms \cup {NoRoom}
NoSocket == "none"
\* a room id that names no room
NoSuchRoom == "rX"

-----------------------------------------------------------------------------
(* Message content: a string is a sequence of characters *)

UpperChars == <<"A", "B", "D", "E", "H", "I", "M", "O", "P", "R", "S", "T", "W", "X">>
LowerChars == <<"a", "b", "d", "e", "h", "i", "m", "o", "p", "r", "s", "t", "w", "x">>

toLowerChar(c) ==
    IF \E i \in 1..Len(UpperChars) : UpperChars[i] = c
    THEN LowerChars[CHOOSE i \in 1..Len(UpperChars) : UpperChars[i] = c]
    ELSE c

toLowerCase(text) == [i \in 1..Len(text) |-> toLowerChar(text[i])]

\* String.prototype.includes
includes(text, word) ==
    \E i \in 0..(Len(text) - Len(word)) :
        \A j \in 1..Len(word) : text[i + j] = word[j]

inappropriateWords ==
    { <<"b", "a", "d", "w", "o", "r", "d", "1">>,
      <<"b", "a", "d", "w", "o", "r", "d", "2">>,
      <<"s", "p", "a", "m">>,
      <<"h", "a", "t", "e">> }

\* the filter without the lower-casing of the text
containsInappropriateContentCaseSensitive(text) ==
    \E word \in inappropriateWords : includes(text, word)

containsInappropriateContent(text) ==
    LET lowerText == toLowerCase(text)
    IN  \E word \in inappropriateWords : includes(lowerText, word)

\* the longest message the client's input accepts (MessageInput.tsx)
maxLength == 500

\* a clean text one character longer than that
LongContent == [i \in 1..(maxLength + 1) |-> "x"]

\* The contents a client sends: empty, clean, and block-list words in mixed
\* case inside a longer text.
Contents ==
    { <<>>,
      <<"h", "i">>,
      <<"x", "S", "p", "A", "m">>,
      <<"H", "A", "T", "E", "s">> }

\* the send_message payloads: <<content, whether imageUrl is present>>
SendPayloads ==
    { <<c, FALSE>> : c \in Contents } \cup { << <<>>, TRUE >>, << <<"H", "A", "T", "E", "s">>, TRUE >> }


-----------------------------------------------------------------------------
(* Records *)

\* interface SocketUser: roomId is absent (NoRoom) until join_room sets it.
SocketUser(userId) == [userId |-> userId, roomId |-> NoRoom]

\* A handler suspended at an await: pc names the pending storage call, obj is
\* the SocketUser object the handler holds in its local `user` (an index into
\* objs[sock]), the other fields are its locals and the arguments of the call.
Task(id, sock, pc, obj, userId, room, content, image, flag, snap) ==
    [id |-> id, sock |-> sock, pc |-> pc, obj |-> obj, userId |-> userId,
     room |-> room, content |-> content, image |-> image, flag |-> flag,
     snap |-> snap]

\* An outbound event {type, data}.
Ev(type, userId, roomId, msg, flag, users, status) ==
    [type |-> type, userId |-> userId, roomId |-> roomId, msg |-> msg,
     flag |-> flag, users |-> users, status |-> status]

EvAuthenticated == Ev("authenticated", NoUser, NoRoom, 0, TRUE, {}, "")
EvStatus(userId, status) == Ev("user_status_changed", userId, NoRoom, 0, FALSE, {}, status)
EvOnlineUsers(users) == Ev("online_users", NoUser, NoRoom, 0, FALSE, users, "")
\* a room_joined reply that does not say which room
EvRoomJoinedUnnamed(roomId) == Ev("room_joined", NoUser, NoRoom, 0, FALSE, {}, "")

EvRoomJoined(roomId) == Ev("room_joined", NoUser, roomId, 0, FALSE, {}, "")
EvBlocked == Ev("message_blocked", NoUser, NoRoom, 0, FALSE, {}, "")
EvNewMessage(row) == Ev("new_message", row.userId, row.roomId, row.id, FALSE, {}, "")
EvTyping(userId, isTyping) == Ev("user_typing", userId, NoRoom, 0, isTyping, {}, "")
EvError == Ev("error", NoUser, NoRoom, 0, FALSE, {}, "")
EvUserJoined(userId) == Ev("user_joined", userId, NoRoom, 0, FALSE, {}, "")
EvUserLeft(userId) == Ev("user_left", userId, NoRoom, 0, FALSE, {}, "")

-----------------------------------------------------------------------------
(* Helpers of routes.ts *)

\* ws.send on one socket; on a socket that is no longer OPEN nothing is sent.
\* On a socket whose transport has failed the send is attempted, does not
\* throw, and delivers nothing: outbox holds the events that were delivered.
wsSend(ob, s, ev) ==
    IF readyState[s] = "OPEN" THEN [ob EXCEPT ![s] = Append(@, ev)] ELSE ob

broadcastToAll(ob, message, excludeSocket) ==
    [s \in Sockets |->
        IF /\ connectedUsers[s] # 0
           /\ s # excludeSocket
           /\ readyState[s] = "OPEN"
        THEN Append(ob[s], message)
        ELSE ob[s]]

\* a fan-out that a failed send ends: with a recipient whose transport has
\* failed in the set, the loop is left before the others are served
broadcastToRoomAborting(ob, rs, roomId, message, excludeSocket) ==
    [s \in Sockets |->
        IF /\ s \in rs[roomId]
           /\ s # excludeSocket
           /\ readyState[s] = "OPEN"
           /\ \A o \in rs[roomId] \ {excludeSocket} : readyState[o] # "FAILED"
        THEN Append(ob[s], message)
        ELSE ob[s]]

\* rs is the roomSockets map at the time of the call.
broadcastToRoom(ob, rs, roomId, message, excludeSocket) ==
    [s \in Sockets |->
        IF /\ s \in rs[roomId]
           /\ s # excludeSocket
           /\ readyState[s] = "OPEN"
        THEN Append(ob[s], message)
        ELSE ob[s]]

getOnlineUsers ==
    { objs[s][connectedUsers[s]].userId : s \in { x \in Sockets : connectedUsers[x] # 0 } }

\* storage.getUser: the row, or undefined
getUser(id) == id \in DbUsers

\* the object a suspended handler holds in `user`
UserOf(t) == objs[t.sock][t.obj]

\* the id of the next inbound frame, in order of receipt
FrameId == nframes + 1

\* an open socket delivers a frame of this kind (within the bounds of the model)
CanRecv(s, kind) ==
    /\ readyState[s] = "OPEN"
    /\ left.frames[s][kind] > 0
    /\ Cardinality(tasks) < MaxPending

Use(s, kind) ==
    /\ left' = [left EXCEPT !.frames[s][kind] = @ - 1]
    /\ nframes' = nframes + 1

\* a storage call rejects (within the bounds of the model)
Reject ==
    /\ left.fail > 0
    /\ left' = [left EXCEPT !.fail = @ - 1]

\* a catch block that logs the error and tells the sender nothing
CatchErrorSilent(t) ==
    /\ Reject
    /\ tasks' = tasks \ {t}
    /\ outbox' = outbox

\* a rejected storage call inside ws.on('message'): the catch block
CatchError(t) ==
    /\ Reject
    /\ tasks' = tasks \ {t}
    /\ outbox' = wsSend(outbox, t.sock, EvError)

\* a drop that answers the sender with an error event
DropFrameWithError(s) == wsSend(outbox, s, EvError)

\* `return` out of a case before anything is done: the frame is dropped and
\* nothing is sent
DropFrame(s) == outbox

db == <<dbStatus, dbTyping, dbLastRead, dbMessages, dbMembers>>
registry == <<objs, connectedUsers, roomSockets>>

-----------------------------------------------------------------------------------------------------------------------------------------------------
(* What the clients do in a run: for each socket the userIds and roomIds its
   client puts in frames, how many frames of each kind it sends, whether its
   transport closes and whether its 'close' handler is invoked a second time;
   how many storage calls reject; the sockets whose transport may fail some
   time before its close is noticed; the sockets whose client does not keep
   to the length its input accepts; and the sockets whose client sends nothing
   but a clean text.  The frames of a socket arrive in any
   order and interleave in every way with the other socket's frames and with
   the settling of storage calls. *)

Client(users, rooms, auth, join, send, typing, bad, close, again) ==
    [users |-> users, rooms |-> rooms, auth |-> auth, join |-> join,
     send |-> send, typing |-> typing, bad |-> bad, close |-> close,
     again |-> again]

Idle == Client({}, {}, 0, 0, 0, 0, 0, 0, 0)

Scenario(c1, c2, fail) == [frames |-> [s \in Sockets |-> IF s = "s1" THEN c1 ELSE c2],
                           fail |-> fail, failing |-> {}, overlong |-> {},
                           plain |-> {}, starts |-> {}, ordered |-> {},
                           members |-> Rooms \X DbUsers,
                           http |-> {}]

Failing(scenario, socks) == [scenario EXCEPT !.failing = socks]

Overlong(scenario, socks) == [scenario EXCEPT !.overlong = socks]

Plain(scenario, socks) == [scenario EXCEPT !.plain = socks]

\* the room_members rows at the start, and the requests to the join and leave
\* endpoints that may arrive: <<"join" | "leave", roomId, userId>>
Members(scenario, rows, requests) ==
    [scenario EXCEPT !.members = rows, !.http = requests]

\* clients that join rA first and rB after it
Ordered(scenario, socks) == [scenario EXCEPT !.ordered = socks]

\* the rooms the next join_room frame of the client of s may name
JoinsOf(s) ==
    IF s \in left.ordered
    THEN {IF left.frames[s].join > 1 THEN "rA" ELSE "rB"}
    ELSE left.frames[s].rooms

\* clients that send typing_start and never typing_stop
Starts(scenario, socks) == [scenario EXCEPT !.starts = socks]

\* the typing frames the client of s sends: typing_start (TRUE), typing_stop
TypingOf(s) == IF s \in left.starts THEN {TRUE} ELSE BOOLEAN

\* the send_message payloads the client of s sends
PayloadsOf(s) ==
    IF s \in left.overlong
    THEN SendPayloads \cup {<<LongContent, FALSE>>}
    ELSE IF s \in left.plain
    THEN {<< <<"h", "i">>, FALSE >>}
    ELSE SendPayloads

AnyUser == UserIds \cup {NoUser}

\* a member of rA sends; the other connection joins rA and its transport fails
ScRoom ==
    Failing(Scenario(Client({"u1"}, {"rA"}, 1, 1, 1, 0, 0, 0, 0),
                     Client({"u2"}, {"rA"}, 1, 1, 0, 0, 0, 0, 0), 0), {"s2"})

\* one connection joins twice and sends twice; one storage call may reject
ScSwitch ==
    Scenario(Client({"u1"}, RoomKeys, 1, 2, 2, 0, 0, 0, 0), Idle, 1)

\* a connection authenticates twice, joins and closes
ScReauth ==
    Scenario(Client(UserIds, {"rA"}, 2, 1, 0, 0, 0, 1, 0), Idle, 0)

\* a member types and closes, its close handler runs again, beside another member
ScTyping ==
    Scenario(Client({"u1"}, {"rA"}, 1, 1, 0, 1, 0, 1, 1),
             Client({"u2"}, {"rA"}, 1, 1, 0, 0, 0, 0, 0), 0)

\* a member closes and a storage call may reject, beside another member
ScCloseFail ==
    Starts(Scenario(Client({"u1"}, {"rA"}, 1, 1, 0, 1, 0, 1, 0),
                    Client({"u2"}, {"rA"}, 1, 1, 0, 0, 0, 0, 0), 1), {"s1"})

\* two connections, of one user or of two, both close
ScPresence ==
    Scenario(Client({"u1"}, {}, 1, 0, 0, 0, 0, 1, 1),
             Client(UserIds, {}, 1, 0, 0, 0, 0, 1, 0), 0)

\* frames of every kind, before and after authenticate and join_room
ScFrames ==
    Overlong(Scenario(Client(AnyUser, RoomKeys, 1, 1, 1, 1, 1, 0, 0), Idle, 1), {"s1"})

\* frames on a connection that never authenticates, beside a member of rA
ScUnauth ==
    Scenario(Client({}, Rooms, 0, 1, 1, 1, 1, 0, 0),
             Client({"u1"}, {"rA"}, 1, 1, 0, 0, 0, 0, 0), 0)

\* a connection sends and changes room, beside a member of rA
ScMove ==
    Ordered(Plain(Scenario(Client({"u1"}, Rooms, 1, 2, 1, 0, 0, 0, 0),
                           Client({"u2"}, {"rA"}, 1, 1, 0, 0, 0, 0, 0), 0),
                  {"s1"}), {"s1"})

\* a connection types and changes room, beside a member of rA
ScTypeMove ==
    Ordered(Starts(Scenario(Client({"u1"}, Rooms, 1, 2, 0, 1, 0, 0, 0),
                            Client({"u2"}, {"rA"}, 1, 1, 0, 0, 0, 0, 0), 0),
                   {"s1"}), {"s1"})

\* u1 is a member of rA only; it may leave rA and join rB or a room that
\* does not exist through the endpoints while its connection joins and types
ScMembers ==
    Members(Scenario(Client({"u1"}, Rooms, 1, 1, 0, 1, 0, 0, 0), Idle, 1),
            {<<"rA", "u1">>},
            {<<"leave", "rA", "u1">>, <<"join", "rB", "u1">>,
             <<"join", NoSuchRoom, "u1">>})

Scenarios == {ScRoom, ScSwitch, ScReauth, ScTyping, ScCloseFail, ScPresence,
              ScFrames, ScUnauth, ScMove, ScTypeMove, ScMembers}

-----
(* The browser: MessageInput.tsx inside MainChat.tsx, over useSocket.ts *)

\* no timeout is pending
NoTimeout == [set |-> FALSE, isTyping |-> FALSE, isConnected |-> FALSE]

\* the component as mounted: useState(""), useState(false); the socket of
\* useSocket is still connecting; roomId is the prop of MainChat
Mounted(roomId) ==
    [message |-> <<>>, isTyping |-> FALSE, socket |-> "CONNECTING",
     roomId |-> roomId, timeout |-> NoTimeout, sent |-> <<>>]

-----------------------------------------------------------------------------
(* Initial state: both transports connected, nothing registered *)

Init ==
    /\ readyState = [s \in Sockets |-> "OPEN"]
    /\ objs = [s \in Sockets |-> <<>>]
    /\ connectedUsers = [s \in Sockets |-> 0]
    /\ roomSockets = [r \in RoomKeys |-> {}]
    /\ tasks = {}
    /\ outbox = [s \in Sockets |-> <<>>]
    /\ dbStatus = [u \in DbUsers |-> "offline"]
    /\ dbTyping = {}
    /\ dbLastRead = {}
    /\ dbMessages = <<>>
    /\ closeState = [s \in Sockets |-> "none"]
    /\ nframes = 0
    /\ left \in Scenarios
    /\ dbMembers = left.members
    /\ client = Mounted(NoRoom)

-----------------------------------------------------------------------------
(* ws.on('message'): case 'authenticate' *)

\* connectedUsers.set(ws, { userId, socket: ws }): a new object replaces the entry
Register(s, userId) ==
    /\ objs' = [objs EXCEPT ![s] = Append(@, SocketUser(userId))]
    /\ connectedUsers' = [connectedUsers EXCEPT ![s] = Len(objs[s]) + 1]

\* The frame {type: 'authenticate', payload: {userId}}; userId = NoUser is a
\* payload without userId.  Runs to the first await.
RecvAuthenticate(s, userId) ==
    /\ CanRecv(s, "auth")
    /\ Use(s, "auth")
    /\ IF userId # NoUser
       THEN /\ Register(s, userId)
            /\ tasks' = tasks \cup
                 {Task(FrameId, s, "auth_status", Len(objs[s]) + 1, userId,
                       NoRoom, <<>>, FALSE, FALSE, {})}
       ELSE UNCHANGED <<objs, connectedUsers, tasks>>
    /\ UNCHANGED <<readyState, roomSockets, outbox, db, closeState>>
    /\ UNCHANGED client

\* await storage.updateUserStatus(userId, 'online') settles
AuthStatusDone(t, ok) ==
    /\ t.pc = "auth_status"
    /\ IF ok
       THEN /\ dbStatus' = [u \in DbUsers |-> IF u = t.userId THEN "online" ELSE dbStatus[u]]
            /\ outbox' = wsSend(outbox, t.sock, EvAuthenticated)
            /\ tasks' = (tasks \ {t}) \cup {[t EXCEPT !.pc = "auth_getUser"]}
            /\ UNCHANGED left
       ELSE /\ CatchError(t)
            /\ UNCHANGED dbStatus
    /\ UNCHANGED <<readyState, dbMembers, registry, dbTyping, dbLastRead, dbMessages, closeState, nframes>>
    /\ UNCHANGED client

\* the online broadcast of authenticate without its excludeSocket argument
AuthBroadcastIncludingSelf(t) ==
    IF getUser(t.userId)
    THEN broadcastToAll(outbox, EvStatus(t.userId, "online"), NoSocket)
    ELSE outbox

\* the recipients' outboxes after the online broadcast of authenticate
AuthBroadcast(t) ==
    IF getUser(t.userId)
    THEN broadcastToAll(outbox, EvStatus(t.userId, "online"), t.sock)
    ELSE outbox

\* await storage.getUser(userId) settles; then getOnlineUsers() is taken
AuthGetUserDone(t, ok) ==
    /\ t.pc = "auth_getUser"
    /\ IF ok
       THEN /\ outbox' = AuthBroadcast(t)
            /\ tasks' = (tasks \ {t}) \cup
                 {[t EXCEPT !.pc = "auth_online", !.snap = getOnlineUsers]}
            /\ UNCHANGED left
       ELSE CatchError(t)
    /\ UNCHANGED <<readyState, registry, db, closeState, nframes>>
    /\ UNCHANGED client

\* await Promise.all(onlineUserIds.map(getUser)) settles
AuthOnlineDone(t, ok) ==
    /\ t.pc = "auth_online"
    /\ IF ok
       THEN /\ outbox' = wsSend(outbox, t.sock,
                               EvOnlineUsers({u \in t.snap : getUser(u)}))
            /\ tasks' = tasks \ {t}
            /\ UNCHANGED left
       ELSE CatchError(t)
    /\ UNCHANGED <<readyState, registry, db, closeState, nframes>>
    /\ UNCHANGED client

-----------------------------------------------------------------------------
(* ws.on('message'): case 'join_room' *)

\* "Leave previous room": only when user.roomId is truthy
LeavePrevious(rs, s, prevRoomId) ==
    IF prevRoomId # NoRoom
    THEN [rs EXCEPT ![prevRoomId] = @ \ {s}]
    ELSE rs

\* "Join new room"
JoinNew(rs, s, roomId) == [rs EXCEPT ![roomId] = @ \cup {s}]

\* join_room with the socket put in the room set before its record is looked
\* up: a connection without a record is left in the set
RecvJoinRoomUnchecked(s, roomId) ==
    /\ CanRecv(s, "join")
    /\ Use(s, "join")
    /\ LET user == connectedUsers[s] IN
       IF user = 0
       THEN /\ roomSockets' = JoinNew(roomSockets, s, roomId)
            /\ UNCHANGED <<objs, tasks, outbox>>
       ELSE /\ UNCHANGED outbox
            /\ roomSockets' =
                 JoinNew(LeavePrevious(roomSockets, s, objs[s][user].roomId), s, roomId)
            /\ objs' = [objs EXCEPT ![s][user].roomId = roomId]
            /\ tasks' = tasks \cup
                 {Task(FrameId, s, "join_lastRead", user, objs[s][user].userId,
                       roomId, <<>>, FALSE, FALSE, {})}
    /\ UNCHANGED <<readyState, connectedUsers, db, closeState>>
    /\ UNCHANGED client

\* The frame {type: 'join_room', payload: {roomId}}; roomId = NoRoom is a
\* payload without roomId.  Runs to the await of updateLastRead.
RecvJoinRoom(s, roomId) ==
    /\ CanRecv(s, "join")
    /\ Use(s, "join")
    /\ LET user == connectedUsers[s] IN
       IF user = 0
       THEN /\ outbox' = DropFrame(s)
            /\ UNCHANGED <<objs, roomSockets, tasks>>
       ELSE /\ UNCHANGED outbox
            /\ roomSockets' =
                 JoinNew(LeavePrevious(roomSockets, s, objs[s][user].roomId), s, roomId)
            /\ objs' = [objs EXCEPT ![s][user].roomId = roomId]
            /\ tasks' = tasks \cup
                 {Task(FrameId, s, "join_lastRead", user, objs[s][user].userId,
                       roomId, <<>>, FALSE, FALSE, {})}
    /\ UNCHANGED <<readyState, connectedUsers, db, closeState>>
    /\ UNCHANGED client

\* storage.updateLastRead(roomId, userId): an UPDATE of the member's row
updateLastRead(roomId, userId) ==
    IF <<roomId, userId>> \in dbMembers
    THEN dbLastRead \cup {<<roomId, userId>>}
    ELSE dbLastRead

\* await storage.updateLastRead(roomId, user.userId) settles
JoinDone(t, ok) ==
    /\ t.pc = "join_lastRead"
    /\ IF ok
       THEN /\ dbLastRead' = updateLastRead(t.room, t.userId)
            /\ outbox' = wsSend(outbox, t.sock, EvRoomJoined(t.room))
            /\ tasks' = tasks \ {t}
            /\ UNCHANGED left
       ELSE /\ CatchError(t)
            /\ UNCHANGED dbLastRead
    /\ UNCHANGED <<readyState, dbMembers, registry, dbStatus, dbTyping, dbMessages, closeState, nframes>>
    /\ UNCHANGED client

-----------------------------------------------------------------------------
(* ws.on('message'): case 'send_message' *)

\* The frame {type: 'send_message', payload: {content, imageUrl}}; image says
\* whether imageUrl is present.  Runs to the await of createMessage.
RecvSendMessage(s, content, image) ==
    /\ CanRecv(s, "send")
    /\ Use(s, "send")
    /\ LET user == connectedUsers[s] IN
       IF user = 0 \/ objs[s][user].roomId = NoRoom
       THEN /\ outbox' = DropFrame(s)
            /\ UNCHANGED tasks
       ELSE IF content = <<>> /\ ~image
       THEN UNCHANGED <<tasks, outbox>>
       ELSE IF content # <<>> /\ containsInappropriateContent(content)
       THEN /\ outbox' = wsSend(outbox, s, EvBlocked)
            /\ UNCHANGED tasks
       ELSE /\ tasks' = tasks \cup
                 {Task(FrameId, s, "send_create", user, objs[s][user].userId,
                       objs[s][user].roomId, content, image, FALSE, {})}
            /\ UNCHANGED outbox
    /\ UNCHANGED <<readyState, registry, db, closeState>>
    /\ UNCHANGED client

\* the row createMessage inserts: roomId and userId as passed at the call
MessageRow(t) ==
    [id |-> t.id, roomId |-> t.room, userId |-> t.userId,
     content |-> t.content, image |-> t.image]

\* the new_message broadcast with the sender excluded
SendBroadcastExcludingSender(t) ==
    broadcastToRoom(outbox, roomSockets, UserOf(t).roomId,
                    EvNewMessage(MessageRow(t)), t.sock)

\* broadcastToRoom(user.roomId, {type: 'new_message', data})
SendBroadcast(t) ==
    broadcastToRoom(outbox, roomSockets, UserOf(t).roomId,
                    EvNewMessage(MessageRow(t)), NoSocket)

\* await storage.createMessage(...) settles.  createMessage inserts the row
\* and then selects it with its user: it rejects when either query does, so a
\* rejected call may have left the row behind.
SendDone(t, ok) ==
    /\ t.pc = "send_create"
    /\ IF ok
       THEN /\ dbMessages' = Append(dbMessages, MessageRow(t))
            /\ outbox' = SendBroadcast(t)
            /\ tasks' = tasks \ {t}
            /\ UNCHANGED left
       ELSE /\ CatchError(t)
            /\ \E inserted \in BOOLEAN :
                 dbMessages' = IF inserted THEN Append(dbMessages, MessageRow(t))
                               ELSE dbMessages
    /\ UNCHANGED <<readyState, dbMembers, registry, dbStatus, dbTyping, dbLastRead, closeState, nframes>>
    /\ UNCHANGED client

-----------------------------------------------------------------------------
(* ws.on('message'): case 'typing_start' / 'typing_stop' *)

\* The frame {type: 'typing_start' | 'typing_stop', payload: {}}
RecvTyping(s, isTyping) ==
    /\ CanRecv(s, "typing")
    /\ Use(s, "typing")
    /\ LET user == connectedUsers[s] IN
       IF user = 0 \/ objs[s][user].roomId = NoRoom
       THEN /\ outbox' = DropFrame(s)
            /\ UNCHANGED tasks
       ELSE /\ tasks' = tasks \cup
                 {Task(FrameId, s, "typing", user, objs[s][user].userId,
                       objs[s][user].roomId, <<>>, FALSE, isTyping, {})}
            /\ UNCHANGED outbox
    /\ UNCHANGED <<readyState, registry, db, closeState>>
    /\ UNCHANGED client

\* storage.updateTypingStatus(roomId, userId, isTyping)
updateTypingStatus(roomId, userId, isTyping) ==
    IF <<roomId, userId>> \notin dbMembers
    THEN dbTyping
    ELSE IF isTyping
    THEN dbTyping \cup {<<roomId, userId>>}
    ELSE dbTyping \ {<<roomId, userId>>}

\* await storage.updateTypingStatus(...) settles
TypingDone(t, ok) ==
    /\ t.pc = "typing"
    /\ IF ok
       THEN /\ dbTyping' = updateTypingStatus(t.room, t.userId, t.flag)
            /\ outbox' = broadcastToRoom(outbox, roomSockets, UserOf(t).roomId,
                                         EvTyping(UserOf(t).userId, t.flag), t.sock)
            /\ tasks' = tasks \ {t}
            /\ UNCHANGED left
       ELSE /\ CatchError(t)
            /\ UNCHANGED dbTyping
    /\ UNCHANGED <<readyState, dbMembers, registry, dbStatus, dbLastRead, dbMessages, closeState, nframes>>
    /\ UNCHANGED client

-----------------------------------------------------------------------------
(* ws.on('message'): frames no case handles *)

BadKinds == {"unparseable", "unknown_type", "auth_no_payload",
             "join_no_payload", "send_no_payload"}

\* whether handling the frame throws into the catch block: JSON.parse throws
\* on an unparseable text, destructuring an undefined payload throws once the
\* handler reaches it, and a type without a case falls out of the switch.
Throws(s, kind) ==
    LET user == connectedUsers[s] IN
    CASE kind = "unparseable" -> TRUE
      [] kind = "unknown_type" -> FALSE
      [] kind = "auth_no_payload" -> TRUE
      [] kind = "join_no_payload" -> user # 0
      [] kind = "send_no_payload" -> user # 0 /\ objs[s][user].roomId # NoRoom

RecvBad(s, kind) ==
    /\ CanRecv(s, "bad")
    /\ Use(s, "bad")
    /\ outbox' = IF Throws(s, kind) THEN wsSend(outbox, s, EvError) ELSE outbox
    /\ UNCHANGED <<readyState, registry, tasks, db, closeState>>
    /\ UNCHANGED client

-----------------------------------------------------------------------------
(* ws.on('close') *)

\* A rejected storage call inside ws.on('close'): the handler has no try, the
\* rejection ends it where it stands.
CloseAbort(t) ==
    /\ Reject
    /\ tasks' = tasks \ {t}
    /\ closeState' = [closeState EXCEPT ![t.sock] = "aborted"]

\* The handler body up to its first await: const user = connectedUsers.get(ws)
OnClose(s) ==
    LET user == connectedUsers[s] IN
    IF user # 0
    THEN /\ tasks' = tasks \cup
              {Task(0, s, "close_status", user, objs[s][user].userId,
                    NoRoom, <<>>, FALSE, FALSE, {})}
         /\ closeState' = [closeState EXCEPT ![s] = "running"]
    ELSE /\ closeState' = [closeState EXCEPT ![s] =
                              IF @ = "done" THEN "done_again" ELSE "done"]
         /\ UNCHANGED tasks

\* The transport of s fails (reset, timeout) and the library has not noticed
\* yet: the code still reads readyState OPEN, sends to s deliver nothing, no
\* frame of s arrives any more.  The 'close' event follows.
TransportFail(s) ==
    /\ readyState[s] = "OPEN"
    /\ s \in left.failing
    /\ readyState' = [readyState EXCEPT ![s] = "FAILED"]
    /\ UNCHANGED <<registry, tasks, outbox, db, closeState, nframes, left>>
    /\ UNCHANGED client

\* The transport of s closes: readyState leaves OPEN and 'close' is emitted.
Close(s) ==
    /\ readyState[s] \in {"OPEN", "FAILED"}
    /\ left.frames[s].close > 0
    /\ Cardinality(tasks) < MaxPending
    /\ left' = [left EXCEPT !.frames[s].close = @ - 1]
    /\ readyState' = [readyState EXCEPT ![s] = "CLOSED"]
    /\ OnClose(s)
    /\ UNCHANGED <<registry, outbox, db, nframes>>
    /\ UNCHANGED client

\* The 'close' handler of s invoked once more after it has completed.
CloseAgain(s) ==
    /\ closeState[s] = "done"
    /\ left.frames[s].again > 0
    /\ left' = [left EXCEPT !.frames[s].again = @ - 1]
    /\ OnClose(s)
    /\ UNCHANGED <<readyState, registry, outbox, db, nframes>>
    /\ UNCHANGED client

\* await storage.updateUserStatus(user.userId, 'offline') settles; with a
\* truthy user.roomId the socket leaves the room set and updateTypingStatus
\* is awaited, otherwise getUser is.
CloseStatusDone(t, ok) ==
    /\ t.pc = "close_status"
    /\ IF ok
       THEN /\ dbStatus' = [u \in DbUsers |-> IF u = t.userId THEN "offline" ELSE dbStatus[u]]
            /\ IF UserOf(t).roomId # NoRoom
               THEN /\ roomSockets' = [roomSockets EXCEPT ![UserOf(t).roomId] = @ \ {t.sock}]
                    /\ tasks' = (tasks \ {t}) \cup
                         {[t EXCEPT !.pc = "close_typing", !.room = UserOf(t).roomId]}
               ELSE /\ tasks' = (tasks \ {t}) \cup {[t EXCEPT !.pc = "close_getUser"]}
                    /\ UNCHANGED roomSockets
            /\ UNCHANGED <<left, closeState>>
       ELSE /\ CloseAbort(t)
            /\ UNCHANGED <<dbStatus, roomSockets>>
    /\ UNCHANGED <<readyState, dbMembers, objs, connectedUsers, outbox, dbTyping, dbLastRead, dbMessages, nframes>>
    /\ UNCHANGED client

\* "Stop typing when disconnected": await storage.updateTypingStatus(user.roomId,
\* user.userId, false) settles, then the room is told.
CloseTypingDone(t, ok) ==
    /\ t.pc = "close_typing"
    /\ IF ok
       THEN /\ dbTyping' = updateTypingStatus(t.room, t.userId, FALSE)
            /\ outbox' = broadcastToRoom(outbox, roomSockets, UserOf(t).roomId,
                                         EvTyping(UserOf(t).userId, FALSE), NoSocket)
            /\ tasks' = (tasks \ {t}) \cup {[t EXCEPT !.pc = "close_getUser"]}
            /\ UNCHANGED <<left, closeState>>
       ELSE /\ CloseAbort(t)
            /\ UNCHANGED <<dbTyping, outbox>>
    /\ UNCHANGED <<readyState, dbMembers, registry, dbStatus, dbLastRead, dbMessages, nframes>>
    /\ UNCHANGED client

\* the recipients' outboxes after the offline broadcast of close
CloseBroadcast(t) ==
    IF getUser(t.userId)
    THEN broadcastToAll(outbox, EvStatus(t.userId, "offline"), NoSocket)
    ELSE outbox

\* a close handler that leaves the entry of the socket in the map
UnregisterForgotten(s) == connectedUsers

\* connectedUsers.delete(ws)
Unregister(s) == [connectedUsers EXCEPT ![s] = 0]

\* await storage.getUser(user.userId) settles: offline broadcast, then the
\* entry of the socket is deleted.
CloseGetUserDone(t, ok) ==
    /\ t.pc = "close_getUser"
    /\ IF ok
       THEN /\ outbox' = CloseBroadcast(t)
            /\ connectedUsers' = Unregister(t.sock)
            /\ tasks' = tasks \ {t}
            /\ closeState' = [closeState EXCEPT ![t.sock] = "done"]
            /\ UNCHANGED left
       ELSE /\ CloseAbort(t)
            /\ UNCHANGED <<outbox, connectedUsers>>
    /\ UNCHANGED <<readyState, objs, roomSockets, db, nframes>>
    /\ UNCHANGED client

-----------------------------------------------------------------------------
(* POST /api/rooms/:roomId/join and /leave.  userId is req.user.id of the
   session; the response goes to the HTTP client and changes nothing here. *)

\* storage.getRoom: the row, or undefined
getRoom(roomId) == roomId \in Rooms

\* a request arrives and its handler runs to its first await
HttpRequest(kind, roomId, userId) ==
    /\ <<kind, roomId, userId>> \in left.http
    /\ Cardinality(tasks) < MaxPending
    /\ left' = [left EXCEPT !.http = @ \ {<<kind, roomId, userId>>}]
    /\ tasks' = tasks \cup
         {Task(0, NoSocket, IF kind = "join" THEN "http_getRoom" ELSE "http_leaveRoom",
               0, userId, roomId, <<>>, FALSE, FALSE, {})}
    /\ UNCHANGED <<readyState, registry, outbox, db, closeState, nframes>>
    /\ UNCHANGED client

\* the catch block of an endpoint: 500, nothing is broadcast
HttpCatch(t) ==
    /\ Reject
    /\ tasks' = tasks \ {t}
    /\ UNCHANGED <<outbox, dbMembers, dbTyping, dbLastRead>>

\* await storage.getRoom(roomId) settles; 404 when there is no such room
HttpGetRoomDone(t, ok) ==
    /\ t.pc = "http_getRoom"
    /\ IF ok
       THEN /\ tasks' = IF getRoom(t.room)
                        THEN (tasks \ {t}) \cup {[t EXCEPT !.pc = "http_joinRoom"]}
                        ELSE tasks \ {t}
            /\ UNCHANGED <<left, outbox, dbMembers, dbTyping, dbLastRead>>
       ELSE HttpCatch(t)
    /\ UNCHANGED <<readyState, registry, dbStatus, dbMessages, closeState, nframes>>
    /\ UNCHANGED client

\* await storage.joinRoom({roomId, userId}) settles: the row is inserted
HttpJoinRoomDone(t, ok) ==
    /\ t.pc = "http_joinRoom"
    /\ IF ok
       THEN /\ dbMembers' = dbMembers \cup {<<t.room, t.userId>>}
            /\ tasks' = (tasks \ {t}) \cup {[t EXCEPT !.pc = "http_join_getUser"]}
            /\ UNCHANGED <<left, outbox, dbTyping, dbLastRead>>
       ELSE HttpCatch(t)
    /\ UNCHANGED <<readyState, registry, dbStatus, dbMessages, closeState, nframes>>
    /\ UNCHANGED client

\* await storage.leaveRoom(roomId, userId) settles: the row is deleted, and its
\* isTyping and lastReadAt with it
HttpLeaveRoomDone(t, ok) ==
    /\ t.pc = "http_leaveRoom"
    /\ IF ok
       THEN /\ dbMembers' = dbMembers \ {<<t.room, t.userId>>}
            /\ dbTyping' = dbTyping \ {<<t.room, t.userId>>}
            /\ dbLastRead' = dbLastRead \ {<<t.room, t.userId>>}
            /\ tasks' = (tasks \ {t}) \cup {[t EXCEPT !.pc = "http_leave_getUser"]}
            /\ UNCHANGED <<left, outbox>>
       ELSE HttpCatch(t)
    /\ UNCHANGED <<readyState, registry, dbStatus, dbMessages, closeState, nframes>>
    /\ UNCHANGED client

\* await storage.getUser(userId) settles: broadcastToRoom(roomId, user_joined or
\* user_left) when the user exists
HttpGetUserDone(t, ok) ==
    /\ t.pc \in {"http_join_getUser", "http_leave_getUser"}
    /\ IF ok
       THEN /\ outbox' =
                 IF getUser(t.userId)
                 THEN broadcastToRoom(outbox, roomSockets, t.room,
                                      IF t.pc = "http_join_getUser"
                                      THEN EvUserJoined(t.userId)
                                      ELSE EvUserLeft(t.userId), NoSocket)
                 ELSE outbox
            /\ tasks' = tasks \ {t}
            /\ UNCHANGED <<left, dbMembers, dbTyping, dbLastRead>>
       ELSE HttpCatch(t)
    /\ UNCHANGED <<readyState, registry, dbStatus, dbMessages, closeState, nframes>>
    /\ UNCHANGED client

-----------------------------------------------------------------------------
(* The server: frames arrive on open sockets, pending storage calls settle in
   any order, sockets close. *)

Recv ==
    \E s \in Sockets :
        \/ \E userId \in left.frames[s].users : RecvAuthenticate(s, userId)
        \/ \E roomId \in JoinsOf(s) : RecvJoinRoom(s, roomId)
        \/ \E p \in PayloadsOf(s) : RecvSendMessage(s, p[1], p[2])
        \/ \E isTyping \in TypingOf(s) : RecvTyping(s, isTyping)
        \/ \E kind \in BadKinds : RecvBad(s, kind)

Settle ==
    \E t \in tasks, ok \in BOOLEAN :
        \/ AuthStatusDone(t, ok)
        \/ AuthGetUserDone(t, ok)
        \/ AuthOnlineDone(t, ok)
        \/ JoinDone(t, ok)
        \/ SendDone(t, ok)
        \/ TypingDone(t, ok)
        \/ CloseStatusDone(t, ok)
        \/ CloseTypingDone(t, ok)
        \/ CloseGetUserDone(t, ok)
        \/ HttpGetRoomDone(t, ok)
        \/ HttpJoinRoomDone(t, ok)
        \/ HttpLeaveRoomDone(t, ok)
        \/ HttpGetUserDone(t, ok)

Http == \E req \in left.http : HttpRequest(req[1], req[2], req[3])

Closing == \E s \in Sockets : TransportFail(s) \/ Close(s) \/ CloseAgain(s)

Next == Recv \/ Settle \/ Closing \/ Http

Spec == Init /\ [][Next]_vars

-----------------------------------------------------------------------------
(* The browser's steps.  A render's closures hold the state and props of that
   render: an event handler runs with the latest render's values, a timeout
   callback with those of the render its handler belonged to. *)

MaxSent == 4

\* the server's variables
server == <<readyState, objs, connectedUsers, roomSockets, tasks, outbox,
            dbStatus, dbTyping, dbLastRead, dbMessages, dbMembers, closeState,
            nframes, left>>

\* String.prototype.trim
RECURSIVE trimStart(_)
trimStart(v) == IF v # <<>> /\ Head(v) = " " THEN trimStart(Tail(v)) ELSE v

RECURSIVE trimEnd(_)
trimEnd(v) ==
    IF v # <<>> /\ v[Len(v)] = " " THEN trimEnd(SubSeq(v, 1, Len(v) - 1)) ELSE v

trim(v) == trimEnd(trimStart(v))

\* the values of the textarea the user produces
InputValues == {<<>>, <<" ">>, <<"a">>, <<"a", " ">>, <<"h", "i">>, LongContent}

\* useSocket.sendMessage: sends when the socket is open
sendMessage(c, type) ==
    IF c.socket = "OPEN" THEN [c EXCEPT !.sent = Append(@, type)] ELSE c

\* MainChat.handleTypingStart / handleTypingStop / handleSendMessage, with the
\* isConnected of the render that created them
handleTyping(c, isConnected, type) ==
    IF isConnected /\ c.roomId # NoRoom THEN sendMessage(c, type) ELSE c

\* socket.onopen: setIsConnected(true)
SocketOpen ==
    /\ client.socket = "CONNECTING"
    /\ client' = [client EXCEPT !.socket = "OPEN"]
    /\ UNCHANGED server

\* socket.onclose: setIsConnected(false)
SocketClose ==
    /\ client.socket = "OPEN"
    /\ client' = [client EXCEPT !.socket = "CLOSED"]
    /\ UNCHANGED server

\* if (isTyping) { setIsTyping(false); onTypingStop(); }
StopIfTyping(c, isTyping, isConnected) ==
    IF isTyping
    THEN handleTyping([c EXCEPT !.isTyping = FALSE], isConnected, "typing_stop")
    ELSE c

\* onChange of the textarea (enabled while connected) with the new value
handleInputChange(value) ==
    /\ client.socket = "OPEN"
    /\ Len(client.sent) < MaxSent
    /\ client' =
         IF Len(value) > maxLength
         THEN client
         ELSE LET typed == [client EXCEPT !.message = value]
                  started ==
                      IF trim(value) # <<>> /\ ~client.isTyping
                      THEN handleTyping([typed EXCEPT !.isTyping = TRUE],
                                        TRUE, "typing_start")
                      ELSE typed
              IN  [started EXCEPT !.timeout =
                      [set |-> TRUE, isTyping |-> client.isTyping,
                       isConnected |-> TRUE]]
    /\ UNCHANGED server

\* the callback of setTimeout(..., 1000) runs
TypingTimeout ==
    /\ client.timeout.set
    /\ client' = StopIfTyping([client EXCEPT !.timeout = NoTimeout],
                              client.timeout.isTyping, client.timeout.isConnected)
    /\ UNCHANGED server

\* Enter or the send button, while the textarea is enabled
handleSend ==
    /\ client.socket = "OPEN"
    /\ Len(client.sent) < MaxSent
    /\ client' =
         IF trim(client.message) = <<>>
         THEN client
         ELSE LET sent == handleTyping([client EXCEPT !.message = <<>>],
                                       TRUE, "send_message")
              IN  [StopIfTyping(sent, client.isTyping, TRUE)
                      EXCEPT !.timeout = NoTimeout]
    /\ UNCHANGED server

ClientInit ==
    /\ readyState = [s \in Sockets |-> "OPEN"]
    /\ objs = [s \in Sockets |-> <<>>]
    /\ connectedUsers = [s \in Sockets |-> 0]
    /\ roomSockets = [r \in RoomKeys |-> {}]
    /\ tasks = {}
    /\ outbox = [s \in Sockets |-> <<>>]
    /\ dbStatus = [u \in DbUsers |-> "offline"]
    /\ dbTyping = {}
    /\ dbLastRead = {}
    /\ dbMessages = <<>>
    /\ closeState = [s \in Sockets |-> "none"]
    /\ nframes = 0
    /\ left = Scenario(Idle, Idle, 0)
    /\ dbMembers = left.members
    /\ client \in {Mounted(roomId) : roomId \in {NoRoom, "rA"}}

ClientNext ==
    \/ SocketOpen
    \/ SocketClose
    \/ \E value \in InputValues : handleInputChange(value)
    \/ TypingTimeout
    \/ handleSend

ClientSpec == ClientInit /\ [][ClientNext]_vars

-----------------------------------------------------------------------------
(* Properties *)

\* the room sets a socket is in
RoomsOf(s) == { r \in RoomKeys : s \in roomSockets[r] }

\* the socket has an entry in connectedUsers
Registered(s) == connectedUsers[s] # 0

\* the SocketUser object of a registered socket
Rec(s) == objs[s][connectedUsers[s]]

\* C1: a connection that has authenticated once is, whatever join_room frames
\* it has sent, in at most one room set, and while it is open and its record
\* names a room it is in that room's set.
C1_AtMostOneRoom ==
    \A s \in Sockets :
        Len(objs[s]) = 1 =>
            /\ Cardinality(RoomsOf(s)) <= 1
            /\ (Registered(s) /\ readyState[s] = "OPEN" /\ Rec(s).roomId # NoRoom)
                  => RoomsOf(s) = {Rec(s).roomId}

\* the positions of the new_message events of room r in the outbox of s
NewMessagesAt(s, r) ==
    { i \in 1..Len(outbox[s]) :
        outbox[s][i].type = "new_message" /\ outbox[s][i].roomId = r }

\* C3: for a fixed room, every connection receives the new_message events of
\* two accepted send_message frames in the order the server received the
\* frames (message ids are the frames' receipt numbers).
C3_RoomOrder ==
    \A s \in Sockets, r \in RoomKeys :
        \A i, j \in NewMessagesAt(s, r) :
            i < j => outbox[s][i].msg < outbox[s][j].msg

\* the events of one type in the outbox of s
Received(s, type) ==
    { outbox[s][i] : i \in { k \in 1..Len(outbox[s]) : outbox[s][k].type = type } }

\* C2 as claimed: when the createMessage call of a send_message of S settles,
\* the new_message goes to the open members, other than S, of the room S sent
\* from, and S's own outbox is left alone.
C2_NoEcho ==
    [][\A t \in tasks :
          (t.pc = "send_create" /\ SendDone(t, TRUE)) =>
              \A s \in Sockets :
                  IF s \in roomSockets[t.room] /\ readyState[s] = "OPEN" /\ s # t.sock
                  THEN outbox'[s] # outbox[s]
                  ELSE outbox'[s] = outbox[s]]_vars

\* C2 as amended: when the createMessage call of a send_message of S settles,
\* the new_message, bearing S's userId, goes to exactly the open sockets of the
\* room set that S's record names at that moment, S itself among them.
C2_Recipients ==
    [][\A t \in tasks :
          (t.pc = "send_create" /\ SendDone(t, TRUE)) =>
              \A s \in Sockets :
                  IF s \in roomSockets[objs[t.sock][t.obj].roomId] /\ readyState[s] = "OPEN"
                  THEN /\ Len(outbox'[s]) = Len(outbox[s]) + 1
                       /\ SubSeq(outbox'[s], 1, Len(outbox[s])) = outbox[s]
                       /\ outbox'[s][Len(outbox'[s])].type = "new_message"
                       /\ outbox'[s][Len(outbox'[s])].msg = t.id
                       /\ outbox'[s][Len(outbox'[s])].userId = objs[t.sock][t.obj].userId
                  ELSE outbox'[s] = outbox[s]]_vars

\* C2 witness: both members of rA are open and have received the message s1 sent.
C2_Witness ==
    /\ roomSockets["rA"] = Sockets
    /\ \A s \in Sockets : readyState[s] = "OPEN"
    /\ Len(dbMessages) = 1
    /\ \A s \in Sockets : \E e \in Received(s, "new_message") : e.msg = dbMessages[1].id

\* a and b are the same letter in either case
SameLetter(a, b) ==
    \/ a = b
    \/ \E i \in 1..Len(UpperChars) : {a, b} = {UpperChars[i], LowerChars[i]}

\* text contains a block-list word as a substring, in any letter case
HasBlockedWord(text) ==
    \E w \in inappropriateWords :
        \E i \in 0..(Len(text) - Len(w)) :
            \A j \in 1..Len(w) : SameLetter(text[i + j], w[j])

\* the payloads whose content contains a block-list word
BlockedPayloads == { p \in SendPayloads : HasBlockedWord(p[1]) }

BlockedContents == { p[1] : p \in BlockedPayloads }

C4_NothingStored ==
    /\ \A t \in tasks : t.pc = "send_create" => t.content \notin BlockedContents
    /\ \A i \in 1..Len(dbMessages) : dbMessages[i].content \notin BlockedContents
    /\ \A s \in Sockets : \A k \in 1..Len(outbox[s]) :
          outbox[s][k].type = "new_message" =>
              \E i \in 1..Len(dbMessages) : dbMessages[i].id = outbox[s][k].msg

C4_OnlyReply ==
    \A s \in Sockets, p \in BlockedPayloads :
        RecvSendMessage(s, p[1], p[2]) =>
            /\ tasks' = tasks
            /\ UNCHANGED <<registry, db>>
            /\ \A o \in Sockets \ {s} : outbox'[o] = outbox[o]
            /\ outbox'[s] = IF Registered(s) /\ Rec(s).roomId # NoRoom
                            THEN Append(outbox[s], EvBlocked)
                            ELSE outbox[s]

\* C4: a send_message whose content contains a block-list word in any letter
\* case starts no createMessage call, stores no row and causes no new_message;
\* it changes nothing but the sender's outbox, which gets message_blocked when
\* the sender is in a room (and nothing when the frame is dropped before the
\* filter).
C4_Blocked == [][C4_OnlyReply /\ C4_NothingStored']_vars

\* C4 witness: a member of a room has been answered message_blocked.
C4_Witness ==
    \E s \in Sockets :
        /\ Registered(s) /\ Rec(s).roomId # NoRoom
        /\ Received(s, "message_blocked") # {}

\* another open connection is registered as userId
OtherOpenConnection(sock, userId) ==
    \E s \in Sockets \ {sock} :
        /\ readyState[s] = "OPEN"
        /\ Registered(s)
        /\ Rec(s).userId = userId

\* C5: the offline status write and the offline broadcast of a closing
\* connection of U happen only when no other connection of U is open.
C5_OfflineAfterLast ==
    [][\A t \in tasks :
          ( \/ (t.pc = "close_status" /\ CloseStatusDone(t, TRUE))
            \/ (t.pc = "close_getUser" /\ CloseGetUserDone(t, TRUE)) )
          => ~OtherOpenConnection(t.sock, t.userId)]_vars

\* C6: the close handler of a connection invoked again after it has completed
\* changes neither map, starts no storage call and sends nothing.
C6_CloseIdempotent ==
    [][\A s \in Sockets :
          (closeState[s] = "done" /\ CloseAgain(s)) =>
              /\ UNCHANGED <<connectedUsers, roomSockets, objs, outbox, db>>
              /\ tasks' = tasks]_vars

\* C6 witness: the close handler of a connection that was a member of rA and
\* had typed has completed and has been invoked again.
C6_Witness ==
    /\ closeState["s1"] = "done_again"
    /\ Len(objs["s1"]) = 1
    /\ objs["s1"][1].roomId = "rA"
    /\ left.frames["s1"].typing = 0

\* the connection of close task t has sent typing_start in the room its record
\* names: the flag is stored or the call storing it is pending
TypedIn(t) ==
    \/ <<UserOf(t).roomId, t.userId>> \in dbTyping
    \/ \E u \in tasks : u.sock = t.sock /\ u.pc = "typing" /\ u.flag
                        /\ u.room = UserOf(t).roomId

\* C7: when a connection that typed in room R closes while open connections
\* remain in R, its close handling does not end before user_typing false has
\* been broadcast to R (once it has ended, nothing will send that event).
C7_CloseStopsTyping ==
    [][\A t \in tasks :
          ( /\ t.pc \in {"close_status", "close_typing"}
            /\ UserOf(t).roomId # NoRoom
            /\ TypedIn(t)
            /\ \E s \in roomSockets[UserOf(t).roomId] \ {t.sock} : readyState[s] = "OPEN" )
          => closeState'[t.sock] # "aborted"]_vars

\* C8: an authenticate frame on a connection that has a record leaves that
\* record as it was and starts no storage call.
C8_ReauthenticateRejected ==
    [][\A s \in Sockets, userId \in AnyUser :
          (Registered(s) /\ RecvAuthenticate(s, userId)) =>
              /\ connectedUsers'[s] # 0
              /\ objs'[s][connectedUsers'[s]] = Rec(s)
              /\ roomSockets' = roomSockets
              /\ tasks' = tasks]_vars

\* a join_room, send_message, typing_start or typing_stop frame arrives on s
RecvNeedingAuth(s) ==
    \/ \E roomId \in RoomKeys : RecvJoinRoom(s, roomId)
    \/ \E p \in SendPayloads : RecvSendMessage(s, p[1], p[2])
    \/ \E isTyping \in BOOLEAN : RecvTyping(s, isTyping)

C10_MalformedGetsError ==
    [][\A s \in Sockets :
          (\/ \E kind \in BadKinds : RecvBad(s, kind)
           \/ RecvAuthenticate(s, NoUser))
          => /\ outbox'[s] = Append(outbox[s], EvError)
             /\ \A o \in Sockets \ {s} : outbox'[o] = outbox[o]]_vars

\* the events a step appends to the outbox of s
Appended(s) == { outbox'[s][k] : k \in (Len(outbox[s]) + 1)..Len(outbox'[s]) }

\* C11: when the createMessage call of a send_message rejects, the sender (its
\* socket still open) is sent an error event, no other connection is sent
\* anything, and connectedUsers and roomSockets are left as they are; and a
\* new_message is sent only by the step in which the createMessage call of the
\* frame with that id resolves.
C11_CreateFailure ==
    [][/\ \A t \in tasks :
            (t.pc = "send_create" /\ SendDone(t, FALSE)) =>
                /\ outbox'[t.sock] = IF readyState[t.sock] = "OPEN"
                                      THEN Append(outbox[t.sock], EvError)
                                      ELSE outbox[t.sock]
                /\ \A o \in Sockets \ {t.sock} : outbox'[o] = outbox[o]
                /\ UNCHANGED registry
       /\ \A s \in Sockets : \A e \in Appended(s) :
            e.type = "new_message" =>
                \E t \in tasks : /\ t.pc = "send_create"
                                  /\ t.id = e.msg
                                  /\ SendDone(t, TRUE)]_vars

\* C11 witness: a createMessage call of an open member rejected after its
\* insert: the row is stored, no new_message bears its id, and the sender has
\* been sent an error.
C11_Witness ==
    \E i \in 1..Len(dbMessages) :
        LET row == dbMessages[i] IN
        /\ \A s \in Sockets : \A e \in Received(s, "new_message") : e.msg # row.id
        /\ \E s \in Sockets :
              /\ readyState[s] = "OPEN"
              /\ Registered(s) /\ Rec(s).userId = row.userId
              /\ Received(s, "error") # {}

\* the step delivers ev, and nothing else, to s
Delivered(s, ev) == outbox'[s] = Append(outbox[s], ev)

PartlyUnregistered(s) ==
    \E c \in tasks :
        /\ c.sock = s
        /\ c.pc \in {"close_typing", "close_getUser"}
        /\ UserOf(c).roomId # NoRoom
        /\ s \notin roomSockets[UserOf(c).roomId]
        /\ Registered(s)

\* the handler suspended as t resumes and reads the maps: broadcastToAll and
\* getOnlineUsers go through connectedUsers, broadcastToRoom through a room set
ReadsMaps(t) ==
    \/ t.pc = "auth_getUser" /\ AuthGetUserDone(t, TRUE)
    \/ t.pc = "send_create" /\ SendDone(t, TRUE)
    \/ t.pc = "typing" /\ TypingDone(t, TRUE)
    \/ t.pc = "close_typing" /\ CloseTypingDone(t, TRUE)
    \/ t.pc = "close_getUser" /\ CloseGetUserDone(t, TRUE)

\* C13: no handler of another connection reads the maps while a closing
\* connection is out of its room set and still in connectedUsers.
C13_CloseAtomic ==
    [][\A t \in tasks :
          ReadsMaps(t) => \A s \in Sockets \ {t.sock} : ~PartlyUnregistered(s)]_vars

\* C14: once the close handling of a connection has ended, by returning or by
\* a rejected storage call, the connection is in neither map.  (Nothing removes
\* it later: what the end of the handler leaves behind stays for good.)
C14_AbsentAfterClose ==
    \A s \in Sockets :
        closeState[s] \in {"done", "done_again", "aborted"} =>
            /\ ~Registered(s)
            /\ RoomsOf(s) = {}

\* C14 with the rejected storage calls left aside: a close handler that ran to
\* its end leaves the connection in no room set.
C14_AbsentAfterCompletedClose ==
    \A s \in Sockets :
        closeState[s] \in {"done", "done_again"} =>
            /\ ~Registered(s)
            /\ RoomsOf(s) = {}

\* C15 as claimed: the online event of an authenticate and the offline event
\* of a close reach every open registered connection, the authenticating one
\* too.
C15_NoExclusion ==
    [][\A t \in tasks :
          /\ (t.pc = "auth_getUser" /\ AuthGetUserDone(t, TRUE)) =>
                \A s \in Sockets :
                    (Registered(s) /\ readyState[s] = "OPEN")
                        => Delivered(s, EvStatus(t.userId, "online"))
          /\ (t.pc = "close_getUser" /\ CloseGetUserDone(t, TRUE)) =>
                \A s \in Sockets :
                    (Registered(s) /\ readyState[s] = "OPEN")
                        => Delivered(s, EvStatus(t.userId, "offline"))]_vars

\* C15 as amended: when getUser finds the user, the online event of an
\* authenticate reaches exactly the open registered connections other than the
\* authenticating one, the user's other connections among them, and the
\* offline event of a close reaches exactly the open registered connections.
C15_PresenceRecipients ==
    [][\A t \in tasks :
          /\ (t.pc = "auth_getUser" /\ AuthGetUserDone(t, TRUE) /\ getUser(t.userId)) =>
                \A s \in Sockets :
                    IF Registered(s) /\ readyState[s] = "OPEN" /\ s # t.sock
                    THEN Delivered(s, EvStatus(t.userId, "online"))
                    ELSE outbox'[s] = outbox[s]
          /\ (t.pc = "close_getUser" /\ CloseGetUserDone(t, TRUE) /\ getUser(t.userId)) =>
                \A s \in Sockets :
                    IF Registered(s) /\ readyState[s] = "OPEN"
                    THEN Delivered(s, EvStatus(t.userId, "offline"))
                    ELSE outbox'[s] = outbox[s]]_vars

\* C15 witness: s1 and s2 are open connections of u1; s1 has been told that u1
\* is online (by the authenticate of s2) and s2 has not, though its own
\* authenticate has run to its end.
C15_Witness ==
    /\ \A s \in Sockets : readyState[s] = "OPEN" /\ Registered(s) /\ Rec(s).userId = "u1"
    /\ EvStatus("u1", "online") \in Received("s1", "user_status_changed")
    /\ Received("s2", "user_status_changed") = {}
    /\ Received("s2", "online_users") # {}

\* C16: an authenticate frame as U that arrives while another open connection
\* is registered as U starts no online status write, and no online event for U
\* is broadcast while U has another open connection.
C16_OnlineOnFirst ==
    [][/\ \A s \in Sockets, userId \in UserIds :
            (RecvAuthenticate(s, userId) /\ OtherOpenConnection(s, userId)) =>
                \A t \in tasks' \ tasks : t.pc # "auth_status"
       /\ \A t \in tasks :
            (t.pc = "auth_getUser" /\ AuthGetUserDone(t, TRUE)
                /\ OtherOpenConnection(t.sock, t.userId)) =>
                \A s \in Sockets : EvStatus(t.userId, "online") \notin Appended(s)]_vars

\* the userId the run binds in which the authenticate frame carries userId
BoundBy(userId) == SocketUser(userId).userId

\* C17: the userId an authenticate frame binds to its connection is the same
\* in the runs that differ only in the userId the client placed in the frame:
\* whatever the payload of the frame received, the userId bound is the one
\* every other payload the client can send would have bound.
C17_IdentityNotFromPayload ==
    [][\A s \in Sockets, userId \in UserIds :
          RecvAuthenticate(s, userId) =>
              \A other \in left.frames[s].users \ {NoUser} :
                  objs'[s][connectedUsers'[s]].userId = BoundBy(other)]_vars

\* C18: a send_message of a connection in a room whose content is longer than
\* maxLength starts no createMessage call and is answered with an error event
\* to its sender; no new_message ever carries such a content.
C18_OverlongRejected ==
    [][/\ \A s \in Sockets :
            ( /\ Registered(s) /\ Rec(s).roomId # NoRoom
              /\ Len(LongContent) > maxLength
              /\ RecvSendMessage(s, LongContent, FALSE) ) =>
                /\ tasks' = tasks
                /\ outbox'[s] = Append(outbox[s], EvError)
       /\ \A t \in tasks :
            (t.pc = "send_create" /\ SendDone(t, TRUE)) => Len(t.content) <= maxLength]_vars

\* Since the send_message frame of t was received, no frame has arrived but,
\* at most, the join_room by which its sender has changed room: a socket that
\* is open and in a room set now has been so since before t's frame.
NoOtherFrameSince(t) ==
    \/ nframes = t.id
    \/ nframes = t.id + 1 /\ UserOf(t).roomId # t.room

\* C19: when the createMessage call of a send_message sent from room R
\* resolves, the new_message is delivered to every other connection that has
\* been open and in the set of R since the frame was received.
C19_DeliveredToRoom ==
    [][\A t \in tasks :
          (t.pc = "send_create" /\ SendDone(t, TRUE) /\ NoOtherFrameSince(t)) =>
              \A s \in roomSockets[t.room] \ {t.sock} :
                  readyState[s] = "OPEN" => Delivered(s, EvNewMessage(MessageRow(t)))]_vars

\* a frame other than authenticate arrives on s
RecvOtherThanAuthenticate(s) ==
    \/ RecvNeedingAuth(s)
    \/ \E kind \in BadKinds \ {"auth_no_payload"} : RecvBad(s, kind)

\* C20: a frame other than authenticate on a connection without a record
\* leaves both maps as they are, starts no storage call, sends nothing to any
\* other connection, and leaves the connection open and without a record.
C20_NoRecordNoEffect ==
    [][\A s \in Sockets :
          (~Registered(s) /\ RecvOtherThanAuthenticate(s)) =>
              /\ UNCHANGED <<registry, db>>
              /\ tasks' = tasks
              /\ \A o \in Sockets \ {s} : outbox'[o] = outbox[o]
              /\ readyState'[s] = "OPEN"]_vars

\* C20 witness: a connection that never authenticated has sent a frame of
\* each kind, one of them unparseable (it was answered error), beside a
\* member of rA that was sent nothing but the replies to its own frames.
C20_Witness ==
    /\ objs["s1"] = <<>>
    /\ left.frames["s1"].rooms # {}
    /\ \A kind \in {"join", "send", "typing", "bad"} : left.frames["s1"][kind] = 0
    /\ Received("s1", "error") # {}
    /\ "s2" \in roomSockets["rA"]
    /\ Received("s2", "room_joined") # {}
    /\ Received("s2", "error") = {}

\* a storage call of the authenticate handler suspended as t rejects
AuthFails(t) ==
    \/ t.pc = "auth_status" /\ AuthStatusDone(t, FALSE)
    \/ t.pc = "auth_getUser" /\ AuthGetUserDone(t, FALSE)
    \/ t.pc = "auth_online" /\ AuthOnlineDone(t, FALSE)

\* C21: a frame whose handling ends with an error event leaves the maps as they
\* were before it.  For the first authenticate of a connection (the only record
\* ever made for it is this frame's) that is: no record; for a join_room that
\* was the second frame of the run (the first was its sender's authenticate)
\* that is: the sender in no room set and its record without a room.
C21_ErrorLeavesState ==
    [][\A t \in tasks :
          /\ (AuthFails(t) /\ readyState[t.sock] = "OPEN" /\ Len(objs[t.sock]) = 1) =>
                connectedUsers'[t.sock] = 0
          /\ (t.pc = "join_lastRead" /\ JoinDone(t, FALSE)
                /\ readyState[t.sock] = "OPEN" /\ t.id = 2) =>
                /\ \A r \in RoomKeys : t.sock \notin roomSockets'[r]
                /\ objs'[t.sock][t.obj].roomId = NoRoom]_vars

\* C21 for join_room alone
C21_FailedJoinLeavesRooms ==
    [][\A t \in tasks :
          (t.pc = "join_lastRead" /\ JoinDone(t, FALSE)
                /\ readyState[t.sock] = "OPEN" /\ t.id = 2) =>
                /\ \A r \in RoomKeys : t.sock \notin roomSockets'[r]
                /\ objs'[t.sock][t.obj].roomId = NoRoom]_vars

\* s, in room A, receives join_room for another room B
SwitchesRoom(s, A, B) ==
    /\ Registered(s)
    /\ Rec(s).roomId = A
    /\ A # B
    /\ RecvJoinRoom(s, B)

\* the updateLastRead calls a step starts: <<roomId, userId>> as passed
LastReadCalls == { <<t.room, t.userId>> : t \in { u \in tasks' \ tasks : u.pc = "join_lastRead" } }

\* C22 as claimed: the join_room for B of a connection in room A issues the
\* last-read update for the prior room A.
C22_PriorRoomRead ==
    [][\A s \in Sockets, A \in Rooms, B \in Rooms :
          SwitchesRoom(s, A, B) => LastReadCalls = {<<A, Rec(s).userId>>}]_vars

\* C22 as amended: the join_room for B of a connection in room A issues the
\* last-read update for the room B it joins, with the connection's userId;
\* when that call resolves the row of (B, user) is written and the reply
\* room_joined, sent to the sender alone, names B.
C22_JoinedRoomRead ==
    [][/\ \A s \in Sockets, A \in Rooms, B \in Rooms :
            SwitchesRoom(s, A, B) => LastReadCalls = {<<B, Rec(s).userId>>}
       /\ \A t \in tasks :
            (t.pc = "join_lastRead" /\ JoinDone(t, TRUE)) =>
                /\ dbLastRead' = updateLastRead(t.room, t.userId)
                /\ \A o \in Sockets \ {t.sock} : outbox'[o] = outbox[o]
                /\ readyState[t.sock] = "OPEN" =>
                      /\ Len(outbox'[t.sock]) = Len(outbox[t.sock]) + 1
                      /\ outbox'[t.sock][Len(outbox'[t.sock])].type = "room_joined"
                      /\ outbox'[t.sock][Len(outbox'[t.sock])].roomId = t.room]_vars

\* C22 witness: s1 joined rA and then rB; both last-read updates have resolved
\* and it has been told room_joined for both.
C22_Witness ==
    /\ Registered("s1") /\ Rec("s1").roomId = "rB"
    /\ {<<"rA", "u1">>, <<"rB", "u1">>} \subseteq dbLastRead
    /\ \E i, j \in 1..Len(outbox["s1"]) :
          /\ i < j
          /\ outbox["s1"][i].type = "room_joined" /\ outbox["s1"][i].roomId = "rA"
          /\ outbox["s1"][j].type = "room_joined" /\ outbox["s1"][j].roomId = "rB"

\* s is the only connection that was ever registered as its user
OnlyConnectionOfUser(s) ==
    \A o \in Sockets \ {s} :
        \A i \in 1..Len(objs[o]) : objs[o][i].userId # Rec(s).userId

\* C23: once the handlers of a connection of U that is now in another room
\* than A have all returned, U is not stored as typing in A (U has had no
\* other connection: it typed in A over this one and left A by join_room).
C23_TypingClearedOnLeave ==
    \A s \in Sockets, A \in Rooms :
        ( /\ Registered(s) /\ readyState[s] = "OPEN"
          /\ Len(objs[s]) = 1
          /\ OnlyConnectionOfUser(s)
          /\ Rec(s).roomId \in Rooms \ {A}
          /\ \A t \in tasks : t.sock # s )
        => <<A, Rec(s).userId>> \notin dbTyping

\* C24: when the updateTypingStatus call of a typing frame received in room R
\* resolves, the flag of (R, user) is what is stored and the user_typing event
\* goes to exactly the open sockets of R's set other than the sender.
C24_TypingRoom ==
    [][\A t \in tasks :
          (t.pc = "typing" /\ TypingDone(t, TRUE)) =>
              /\ dbTyping' = updateTypingStatus(t.room, t.userId, t.flag)
              /\ \A s \in Sockets :
                    IF s \in roomSockets[t.room] /\ readyState[s] = "OPEN" /\ s # t.sock
                    THEN Delivered(s, EvTyping(t.userId, t.flag))
                    ELSE outbox'[s] = outbox[s]]_vars

\* C25: a join_room frame without a roomId, received on a registered
\* connection, changes neither the record's roomId nor any room set and
\* starts no handler (so no room_joined reply follows).
C25_InvalidJoinIgnored ==
    [][\A s \in Sockets :
          (Registered(s) /\ RecvJoinRoom(s, NoRoom)) =>
              /\ UNCHANGED <<roomSockets, objs>>
              /\ tasks' = tasks]_vars

\* C26: when createMessage resolves, the new_message event goes to the room
\* set of the roomId the row was persisted under.
C26_PersistedRoomIsBroadcastRoom ==
    [][\A t \in tasks :
          (t.pc = "send_create" /\ SendDone(t, TRUE)) =>
              outbox' = broadcastToRoom(outbox, roomSockets, MessageRow(t).roomId,
                                        EvNewMessage(MessageRow(t)), NoSocket)]_vars

\* C27: a socket is in the set of room R exactly when it has a record in
\* connectedUsers whose roomId is R.
C27_RecordsAgreeWithIndex ==
    \A s \in Sockets, R \in Rooms :
        s \in roomSockets[R] <=> (Registered(s) /\ Rec(s).roomId = R)

\* the number of records ever created for user U, over all connections
RecordsOf(U) ==
    Cardinality(UNION { { <<s, i>> : i \in { k \in 1..Len(objs[s]) :
                                                  objs[s][k].userId = U } } :
                        s \in Sockets })

\* C28: when U has authenticated on one connection only, no connection is
\* sent an online_users snapshot listing U after it was sent U's offline
\* status change.
C28_NoStaleSnapshot ==
    \A X \in Sockets, U \in UserIds :
        RecordsOf(U) = 1 =>
            \A i \in 1..Len(outbox[X]), j \in 1..Len(outbox[X]) :
                ~ ( /\ i < j
                    /\ outbox[X][i] = EvStatus(U, "offline")
                    /\ outbox[X][j].type = "online_users"
                    /\ U \in outbox[X][j].users )

\* C29: a registered socket is in the set of room R only while its user has
\* a room_members row for R.
C29_MembersOnly ==
    \A s \in Sockets, R \in Rooms :
        (s \in roomSockets[R] /\ Registered(s)) => <<R, Rec(s).userId>> \in dbMembers

\* the same for the leave endpoint: when leaveRoom has deleted the row of
\* (R, U), no registered connection of U is in the set of R
C29_LeftStaysListed ==
    [][\A t \in tasks :
          (t.pc = "http_leaveRoom" /\ HttpLeaveRoomDone(t, TRUE)) =>
              \A s \in Sockets :
                  (Registered(s) /\ Rec(s).userId = t.userId) =>
                      s \notin roomSockets'[t.room]]_vars

\* the typing frame sent last is typing_start: the server has been told
\* that the user types and not yet that they stopped
Owing(c) ==
    \E i \in 1..Len(c.sent) :
        /\ c.sent[i] = "typing_start"
        /\ \A j \in (i + 1)..Len(c.sent) : c.sent[j] # "typing_stop"

\* C30: when the 1000 ms timeout of the last input runs in a connected client
\* that is in a room, or the message is sent, no typing_start is left
\* without a typing_stop after it.
C30_StopFollowsStart ==
    [][( /\ client.socket = "OPEN" /\ client.roomId # NoRoom
         /\ \/ TypingTimeout
            \/ handleSend /\ trim(client.message) # <<>> )
       => ~Owing(client')]_vars

=============================================================================
